---- MODULE Spec2Model ----
(***************************************************************************)
(* Clinical constraint enforcement and synthetic trajectory generation of  *)
(* adni-python/api/clinical_constraints.py:                                *)
(*   generate_future_predictions   (TrajectoryGenerator, "generate")       *)
(*   enforce_clinical_constraints  (ConstraintEnforcer,  "enforce")        *)
(*   validate_predictions          (Validator,           "validate")       *)
(*                                                                         *)
(* Scores are real numbers.  They are modelled as exact rationals          *)
(* <<numerator, denominator>> in lowest terms with a positive denominator, *)
(* so that equality of two scores is equality of the two pairs.  A missing *)
(* score is the float NaN, the pair <<0, 0>>.                              *)
(* A (T,4) prediction array is a sequence of T rows                        *)
(* <<mmse, cdr_global, cdr_sob, adas_cog>>; column c of the code is        *)
(* position c+1 of a row.                                                  *)
(***************************************************************************)
EXTENDS Integers, Sequences, FiniteSets, TLC

\* ------------------------------------------------------------------------
\* Bounds of the model
\* ------------------------------------------------------------------------
MaxLen == 3

MaxMonths == 18

NumThreads == 2

MaxConcMonths == 6

FreeDraws == 10

\* ------------------------------------------------------------------------
\* Real arithmetic on exact rationals
\* ------------------------------------------------------------------------
AbsI(n) == IF n < 0 THEN -n ELSE n

RECURSIVE Gcd(_, _)
Gcd(a, b) == IF b = 0 THEN a ELSE Gcd(b, a % b)

Rat(n, d) ==
    LET g == Gcd(AbsI(n), AbsI(d))
        s == IF d < 0 THEN -1 ELSE 1
    IN  <<(s * n) \div g, (s * d) \div g>>

RInt(n) == <<n, 1>>

\* np.nan: arithmetic on it gives NaN, every comparison with it is False
NaN == <<0, 0>>

IsNaN(x) == x[2] = 0

RAdd(x, y) ==
    IF IsNaN(x) \/ IsNaN(y) THEN NaN
    ELSE LET g == Gcd(x[2], y[2])
         IN  Rat(x[1] * (y[2] \div g) + y[1] * (x[2] \div g), (x[2] \div g) * y[2])

RNeg(x) == <<-x[1], x[2]>>

RSub(x, y) == RAdd(x, RNeg(y))

RMul(x, y) ==
    IF IsNaN(x) \/ IsNaN(y) THEN NaN
    ELSE LET g1 == Gcd(AbsI(x[1]), y[2])
             g2 == Gcd(AbsI(y[1]), x[2])
         IN  Rat((x[1] \div g1) * (y[1] \div g2), (x[2] \div g2) * (y[2] \div g1))

RDiv(x, y) == IF IsNaN(y) THEN NaN ELSE RMul(x, Rat(y[2], y[1]))

RLt(x, y) ==
    IF IsNaN(x) \/ IsNaN(y) THEN FALSE
    ELSE LET g == Gcd(x[2], y[2])
         IN  x[1] * (y[2] \div g) < y[1] * (x[2] \div g)

RLe(x, y) ==
    IF IsNaN(x) \/ IsNaN(y) THEN FALSE
    ELSE LET g == Gcd(x[2], y[2])
         IN  x[1] * (y[2] \div g) <= y[1] * (x[2] \div g)

RAbs(x) == <<AbsI(x[1]), x[2]>>

\* Python's max(x, y), min(x, y): the first argument unless the second beats it
RMax(x, y) == IF RLt(x, y) THEN y ELSE x

RMin(x, y) == IF RLt(y, x) THEN y ELSE x

\* np.clip(v, lo, hi) on one element; a NaN stays NaN
ClipLowerOnly(v, lo, hi) == RMax(RInt(lo), v)

Clip(v, lo, hi) == IF IsNaN(v) THEN NaN ELSE RMin(RInt(hi), RMax(RInt(lo), v))

\* np.clip(a, lo, hi) on an array
ClipAll(a, lo, hi) == [t \in 1..Len(a) |-> Clip(a[t], lo, hi)]

\* predictions[:, c]
Col(p, c) == [t \in 1..Len(p) |-> p[t][c]]

\* ------------------------------------------------------------------------
\* The ADAS-Cog -> CDR-Global band table
\* ------------------------------------------------------------------------
Half == <<1, 2>>

CdrBandInclusive(adas_val) ==
    IF RLe(adas_val, RInt(10)) THEN RInt(0)
    ELSE IF RLe(adas_val, RInt(20)) THEN Half
    ELSE IF RLe(adas_val, RInt(32)) THEN RInt(1)
    ELSE IF RLe(adas_val, RInt(55)) THEN RInt(2)
    ELSE RInt(3)

CdrBand(adas_val) ==
    IF RLt(adas_val, RInt(10)) THEN RInt(0)
    ELSE IF RLt(adas_val, RInt(20)) THEN Half
    ELSE IF RLt(adas_val, RInt(32)) THEN RInt(1)
    ELSE IF RLt(adas_val, RInt(55)) THEN RInt(2)
    ELSE RInt(3)

\* ------------------------------------------------------------------------
\* enforce_clinical_constraints
\* ------------------------------------------------------------------------
\* The delta of step t (t >= 2 here, t >= 1 in the code), taken from the raw
\* ADAS-Cog values; a negative delta is reversed.
AdasDeltaSigned(raw_adas, t) == RSub(raw_adas[t], raw_adas[t-1])

AdasDeltaFromFirst(raw_adas, t) == RAbs(RSub(raw_adas[t], raw_adas[1]))

AdasDelta(raw_adas, t) ==
    LET delta == RSub(raw_adas[t], raw_adas[t-1])
    IN  IF RLt(delta, RInt(0)) THEN RAbs(delta) ELSE delta

\* adas_fixed before the final clip: the first value clipped, then the
\* accumulated deltas.
RECURSIVE AdasAccumRawFirst(_, _)
AdasAccumRawFirst(raw_adas, t) ==
    IF t = 1 THEN raw_adas[1]
    ELSE RAdd(AdasAccumRawFirst(raw_adas, t-1), AdasDelta(raw_adas, t))

RECURSIVE AdasAccum(_, _)
AdasAccum(raw_adas, t) ==
    IF t = 1 THEN RMax(RInt(0), RMin(RInt(70), raw_adas[1]))
    ELSE RAdd(AdasAccum(raw_adas, t-1), AdasDelta(raw_adas, t))

AdasFixed(raw_adas) ==
    ClipAll([t \in 1..Len(raw_adas) |-> AdasAccum(raw_adas, t)], 0, 70)

MmseFromAdasSobSlope(a) == Clip(RSub(RInt(30), RDiv(RMul(a, RInt(18)), RInt(70))), 0, 30)

MmseFromAdas(a) == Clip(RSub(RInt(30), RDiv(RMul(a, RInt(30)), RInt(70))), 0, 30)

CdrSobFromAdasInverted(a) ==
    Clip(RSub(RInt(18), RDiv(RMul(a, RInt(18)), RInt(70))), 0, 18)

CdrSobFromAdas(a) == Clip(RDiv(RMul(a, RInt(18)), RInt(70)), 0, 18)

\* The call's outcome: the constrained array, or the exception it raises.
enforceUsesRawMmse(predictions) ==
    IF Len(predictions) = 0
    THEN [status |-> "raised", error |-> "IndexError"]
    ELSE LET adas_fixed == AdasFixed(Col(predictions, 4))
         IN  [status |-> "ok",
              value  |-> [t \in 1..Len(predictions) |->
                            <<Clip(predictions[t][1], 0, 30),
                              CdrBand(adas_fixed[t]),
                              CdrSobFromAdas(adas_fixed[t]),
                              adas_fixed[t]>>]]

enforce_clinical_constraints(predictions) ==
    IF Len(predictions) = 0
    THEN [status |-> "raised", error |-> "IndexError"]
    ELSE LET adas_fixed == AdasFixed(Col(predictions, 4))
         IN  [status |-> "ok",
              value  |-> [t \in 1..Len(predictions) |->
                            <<MmseFromAdas(adas_fixed[t]),
                              CdrBand(adas_fixed[t]),
                              CdrSobFromAdas(adas_fixed[t]),
                              adas_fixed[t]>>]]

\* ------------------------------------------------------------------------
\* validate_predictions
\* ------------------------------------------------------------------------
valid_cdr_values == {RInt(0), Half, RInt(1), RInt(2), RInt(3)}

InRange(a, lo, hi) ==
    \A t \in 1..Len(a) : RLe(RInt(lo), a[t]) /\ RLe(a[t], RInt(hi))

\* a.min(), a.max() of a non-empty array; NaN when the array holds a NaN
ArrMin(a) == IF \E t \in 1..Len(a) : IsNaN(a[t]) THEN NaN
             ELSE CHOOSE m \in {a[t] : t \in 1..Len(a)} :
                      \A t \in 1..Len(a) : RLe(m, a[t])

ArrMax(a) == IF \E t \in 1..Len(a) : IsNaN(a[t]) THEN NaN
             ELSE CHOOSE m \in {a[t] : t \in 1..Len(a)} :
                      \A t \in 1..Len(a) : RLe(a[t], m)

\* np.all(np.diff(a) >= 0), np.all(np.diff(a) <= 0)
NonDecreasing(a) == \A t \in 2..Len(a) : RLe(a[t-1], a[t])

NonIncreasing(a) == \A t \in 2..Len(a) : RLe(a[t], a[t-1])

validateCdrGlobalByRange(predictions) ==
    IF Len(predictions) = 0
    THEN [status |-> "raised", error |-> "ValueError"]
    ELSE LET mmse       == Col(predictions, 1)
             cdr_global == Col(predictions, 2)
             cdr_sob    == Col(predictions, 3)
             adas       == Col(predictions, 4)
             mmse_valid       == InRange(mmse, 0, 30)
             cdr_global_valid == InRange(cdr_global, 0, 3)
             cdr_sob_valid    == InRange(cdr_sob, 0, 18)
             adas_valid       == InRange(adas, 0, 70)
             adas_monotonic   == NonDecreasing(adas)
         IN  [status |-> "ok",
              value  |-> [mmse_valid       |-> mmse_valid,
                          mmse_range       |-> <<ArrMin(mmse), ArrMax(mmse)>>,
                          cdr_global_valid |-> cdr_global_valid,
                          cdr_global_range |-> <<ArrMin(cdr_global), ArrMax(cdr_global)>>,
                          cdr_sob_valid    |-> cdr_sob_valid,
                          cdr_sob_range    |-> <<ArrMin(cdr_sob), ArrMax(cdr_sob)>>,
                          adas_valid       |-> adas_valid,
                          adas_range       |-> <<ArrMin(adas), ArrMax(adas)>>,
                          adas_monotonic   |-> adas_monotonic,
                          mmse_monotonic_decreasing |-> NonIncreasing(mmse),
                          all_valid        |-> /\ mmse_valid
                                               /\ cdr_global_valid
                                               /\ cdr_sob_valid
                                               /\ adas_valid
                                               /\ adas_monotonic]]

validate_predictions(predictions) ==
    IF Len(predictions) = 0
    THEN [status |-> "raised", error |-> "ValueError"]
    ELSE LET mmse       == Col(predictions, 1)
             cdr_global == Col(predictions, 2)
             cdr_sob    == Col(predictions, 3)
             adas       == Col(predictions, 4)
             mmse_valid       == InRange(mmse, 0, 30)
             cdr_global_valid == \A t \in 1..Len(cdr_global) :
                                     cdr_global[t] \in valid_cdr_values
             cdr_sob_valid    == InRange(cdr_sob, 0, 18)
             adas_valid       == InRange(adas, 0, 70)
             adas_monotonic   == NonDecreasing(adas)
         IN  [status |-> "ok",
              value  |-> [mmse_valid       |-> mmse_valid,
                          mmse_range       |-> <<ArrMin(mmse), ArrMax(mmse)>>,
                          cdr_global_valid |-> cdr_global_valid,
                          cdr_global_range |-> <<ArrMin(cdr_global), ArrMax(cdr_global)>>,
                          cdr_sob_valid    |-> cdr_sob_valid,
                          cdr_sob_range    |-> <<ArrMin(cdr_sob), ArrMax(cdr_sob)>>,
                          adas_valid       |-> adas_valid,
                          adas_range       |-> <<ArrMin(adas), ArrMax(adas)>>,
                          adas_monotonic   |-> adas_monotonic,
                          mmse_monotonic_decreasing |-> NonIncreasing(mmse),
                          all_valid        |-> /\ mmse_valid
                                               /\ cdr_global_valid
                                               /\ cdr_sob_valid
                                               /\ adas_valid
                                               /\ adas_monotonic]]

\* ------------------------------------------------------------------------
\* generate_future_predictions: the pieces of the computation
\* ------------------------------------------------------------------------
\* last_session_scores.get(key, default)
DictGet(d, key, default) == IF key \in DOMAIN d THEN d[key] ELSE default

baseline_mmseInRangeOrDefault(a) ==
    LET v == DictGet(a.last_session_scores, "mmse", <<88, 5>>)
    IN  IF RLe(RInt(0), v) /\ RLe(v, RInt(30)) THEN v ELSE <<88, 5>>

baseline_mmse(a) == DictGet(a.last_session_scores, "mmse", <<88, 5>>)

baseline_cdr_sob(a) == DictGet(a.last_session_scores, "cdr_sob", <<37, 5>>)

baseline_adas(a) == DictGet(a.last_session_scores, "adas_totscore", <<289, 10>>)

\* Python's a // b for b # 0: the floor of the quotient
PyFloorDiv(a, b) == IF b > 0 THEN a \div b ELSE (-a) \div (-b)

num_timepointsNoBaseline(a) == PyFloorDiv(a.num_months, a.interval_months)

num_timepoints(a) == PyFloorDiv(a.num_months, a.interval_months) + 1

\* The process-global generator of np.random, as a linear congruential
\* generator: np.random.seed(s) sets its state, every draw advances the state
\* and returns a sample of [0, 1) that is a function of the new state.
RngMod == 16

RngMul == 5

RngInc == 3

RngSeed(seed) == seed % RngMod

RngNext(state) == (RngMul * state + RngInc) % RngMod

RngSample(state) == Rat(state, RngMod)

\* np.random.uniform(lo, hi) for the sample u of [0, 1)
Uniform(lo, hi, u) == RAdd(lo, RMul(RSub(hi, lo), u))

\* The state of the generator after n draws from the state `state`
RECURSIVE RngAfter(_, _)
RngAfter(state, n) == IF n = 0 THEN state ELSE RngNext(RngAfter(state, n-1))

\* One step of a walk: trajectory[t] = trajectory[t-1] + uniform(lo, hi),
\* drawn with the generator in state `state` (already advanced)
WalkStep(prev, lo, hi, state) == RAdd(prev, Uniform(lo, hi, RngSample(state)))

AdasStepWide(prev, state) == WalkStep(prev, <<7, 5>>, <<29, 10>>, state)

AdasStep(prev, state) == WalkStep(prev, <<7, 5>>, <<19, 10>>, state)

MmseStep(prev, state) == WalkStep(prev, <<-7, 5>>, RInt(-1), state)

CdrSobStep(prev, state) == WalkStep(prev, <<1, 2>>, <<9, 10>>, state)

RescaleLastOnly(trajectory, limit, target) ==
    LET final == trajectory[Len(trajectory)]
    IN  IF RLt(limit, final)
        THEN [t \in 1..Len(trajectory) |->
                IF t = Len(trajectory) THEN target ELSE trajectory[t]]
        ELSE trajectory

RescaleKeepFirst(trajectory, limit, target) ==
    LET final == trajectory[Len(trajectory)]
    IN  IF RLt(limit, final)
        THEN LET scale_factor == RDiv(target, final)
             IN  [t \in 1..Len(trajectory) |->
                    IF t = 1 /\ RLe(trajectory[1], target) THEN trajectory[1]
                    ELSE RMul(trajectory[t], scale_factor)]
        ELSE trajectory

\* if trajectory[-1] > limit: trajectory = trajectory * (target / trajectory[-1])
Rescale(trajectory, limit, target) ==
    LET final == trajectory[Len(trajectory)]
    IN  IF RLt(limit, final)
        THEN LET scale_factor == RDiv(target, final)
             IN  [t \in 1..Len(trajectory) |-> RMul(trajectory[t], scale_factor)]
        ELSE trajectory

\* The "mod difference" accumulation of a raw walk onto its first value
RECURSIVE ModDiffAtSigned(_, _)
ModDiffAtSigned(walk, t) ==
    IF t = 1 THEN walk[1]
    ELSE RAdd(ModDiffAtSigned(walk, t-1), RSub(walk[t], walk[t-1]))

RECURSIVE ModDiffAt(_, _)
ModDiffAt(walk, t) ==
    IF t = 1 THEN walk[1]
    ELSE RAdd(ModDiffAt(walk, t-1), RAbs(RSub(walk[t], walk[t-1])))

ModDiff(walk) == [t \in 1..Len(walk) |-> ModDiffAt(walk, t)]

AdasFinalAbove613(adas_walk) ==
    ClipAll(Rescale(adas_walk, <<613, 10>>, <<613, 10>>), 0, 70)

AdasFinal(adas_walk) == ClipAll(Rescale(adas_walk, RInt(70), <<613, 10>>), 0, 70)

MmseFinalOfRawWalk(mmse_raw) == ClipAll(Rescale(mmse_raw, RInt(30), RInt(30)), 0, 30)

MmseFinal(mmse_raw) == ClipAll(Rescale(ModDiff(mmse_raw), RInt(30), RInt(30)), 0, 30)

CdrSobFinalClipOnly(cdr_sob_raw) == ClipAll(ModDiff(cdr_sob_raw), 0, 18)

CdrSobFinal(cdr_sob_raw) == ClipAll(Rescale(ModDiff(cdr_sob_raw), RInt(18), RInt(18)), 0, 18)

\* predictions[:, 0..3] = mmse, cdr_global (from the final ADAS-Cog), cdr_sob, adas
Assemble(mmse_trajectory, cdr_sob_trajectory, adas_trajectory) ==
    [t \in 1..Len(adas_trajectory) |->
        <<mmse_trajectory[t], CdrBand(adas_trajectory[t]),
          cdr_sob_trajectory[t], adas_trajectory[t]>>]

\* A walk of T timepoints drawn right after np.random.seed(seed), with no
\* other use of the generator in between
RECURSIVE SeededWalkAt(_, _, _, _, _)
SeededWalkAt(first, lo, hi, seed, t) ==
    IF t = 1 THEN first
    ELSE WalkStep(SeededWalkAt(first, lo, hi, seed, t-1), lo, hi,
                  RngAfter(RngSeed(seed), t-1))

SeededWalk(first, lo, hi, seed, T) ==
    [t \in 1..T |-> SeededWalkAt(first, lo, hi, seed, t)]

\* The array one call returns when it runs alone
generate_future_predictions(a) ==
    LET T == num_timepoints(a)
    IN  Assemble(
          MmseFinal(SeededWalk(baseline_mmse(a), <<-7, 5>>, RInt(-1), 43, T)),
          CdrSobFinal(SeededWalk(baseline_cdr_sob(a), <<1, 2>>, <<9, 10>>, 44, T)),
          AdasFinal(SeededWalk(baseline_adas(a), <<7, 5>>, <<19, 10>>, 42, T)))

\* ------------------------------------------------------------------------
\* State
\* ------------------------------------------------------------------------
VARIABLES
    mode,            \* what the caller exercises: "enforce", "validate"
                     \* (of its raw array) or "generate"
    raw,             \* the raw (T,4) array a caller passes to enforce
    alt,             \* a second raw array with the same ADAS-Cog column
    constrained,     \* outcome of enforce(raw)
    constrainedAlt,  \* outcome of enforce(alt)
    reconstrained,   \* outcome of enforce(constrained)
    validation,      \* outcome of validate(constrained)
    validationRaw,   \* outcome of validate(raw)
    rng,             \* state of the process-global np.random generator
    calls,           \* per thread: the call of generate it is running
    first,           \* arguments and result of the first call that returned
    otherSince,      \* a call with other arguments returned after the first
    predictions_store, \* alzheimers.py: patient_id -> the stored request
    http,            \* the last response of the predictions endpoints
    accepted,        \* patient_id -> the last request answered with 200
    posts,           \* number of POST requests received
    File,            \* the File table: id -> row
    fileCall,        \* the last call into the file processing code
    pipeline         \* the run of run_pipeline.main

enfVars == <<raw, alt, constrained, constrainedAlt, reconstrained, validation,
            validationRaw>>

genVars == <<rng, calls, first, otherSince>>

apiVars == <<predictions_store, http, accepted, posts>>

fileVars == <<File, fileCall>>

svcVars == <<apiVars, fileVars, pipeline>>

vars == <<mode, enfVars, genVars, svcVars>>

NotCalled == [status |-> "none"]

\* ------------------------------------------------------------------------
\* Inputs of enforce: raw model predictions
\* ------------------------------------------------------------------------
\* Raw ADAS-Cog values: below 0, above 70, on the band boundaries, inside.
AdasVals == {RInt(-10), RInt(10), RInt(30), RInt(32), RInt(40), RInt(50),
             RInt(55), RInt(80)}

\* The three other raw columns <<mmse, cdr_global, cdr_sob>> at timepoint t,
\* in range (profile 1) or not (profiles 2 and 3).
Profiles == 1..3

NoiseRow(p, t) ==
    IF p = 1 THEN <<RInt(25), RInt(1), RInt(5)>>
    ELSE IF p = 2 THEN <<RInt(20 * t - 4), <<3, 2>>, RInt(40 - 30 * t)>>
    ELSE <<RInt(31), <<5, 2>>, RInt(-1)>>

RawArray(adasCol, p) ==
    [t \in 1..Len(adasCol) |->
        <<NoiseRow(p, t)[1], NoiseRow(p, t)[2], NoiseRow(p, t)[3], adasCol[t]>>]

\* The raw ADAS-Cog column of the caller that also calls generate: it starts
\* on a band boundary, rises to another, then drops; its repair passes 70.
ScenarioAdas == <<RInt(10), RInt(55), RInt(30)>>

AdasCols == UNION {[1..n -> AdasVals] : n \in 0..MaxLen}

\* Raw ADAS-Cog columns with the value of one timepoint missing (NaN)
MissingCols ==
    UNION {{[SubSeq(ScenarioAdas, 1, n) EXCEPT ![m] = NaN] : m \in 1..n} :
              n \in 1..Len(ScenarioAdas)}

\* predictions has a timepoint without an ADAS-Cog value
HasMissing(predictions) == \E t \in 1..Len(predictions) : IsNaN(predictions[t][4])

\* ------------------------------------------------------------------------
\* Inputs of generate: last-session scores, horizon, interval
\* ------------------------------------------------------------------------
Threads == 1..NumThreads

\* Baselines: no field given (all defaults), on a band boundary, below the
\* ranges, near the top of the ranges, above the ranges.
Baselines ==
    { <<>>,
      [adas_totscore |-> RInt(20)],
      [mmse |-> RInt(-3), cdr_global |-> RInt(0), cdr_sob |-> RInt(-2),
       adas_totscore |-> RInt(-5)],
      [mmse |-> RInt(29), cdr_global |-> RInt(3), cdr_sob |-> RInt(17),
       adas_totscore |-> RInt(69)],
      [mmse |-> RInt(40), cdr_global |-> RInt(7), cdr_sob |-> RInt(25),
       adas_totscore |-> RInt(100)] }

MonthsVals == {3, 6, 15, MaxMonths}

\* <<num_months, interval_months>> with a horizon or an interval that is
\* zero or negative
NonPositivePairs ==
    {<<0, 6>>, <<-6, 6>>, <<6, 0>>, <<6, -6>>, <<MaxMonths, -6>>, <<-6, -6>>}

NonPositiveArgs ==
    {[last_session_scores |-> <<>>, num_months |-> p[1], interval_months |-> p[2]] :
        p \in NonPositivePairs}

\* The defaults of the signature with no last-session score given
DefaultArgs == [last_session_scores |-> <<>>, num_months |-> 90, interval_months |-> 6]

GenArgs ==
    [last_session_scores : Baselines, num_months : MonthsVals,
     interval_months : {6}] \cup NonPositiveArgs \cup {DefaultArgs}

\* The arguments of the calls that run concurrently
ConcArgs == {a \in GenArgs \ NonPositiveArgs : a.num_months <= MaxConcMonths}

Idle == [pc |-> "idle"]

\* The backend and the pipeline before anything ran
ApiIdle ==
    /\ predictions_store = <<>>
    /\ http = [op |-> "none"]
    /\ accepted = <<>>
    /\ posts = 0

FilesIdle ==
    /\ File = <<>>
    /\ fileCall = [op |-> "none"]

PipelineIdle == pipeline = [pc |-> "idle"]

ServicesIdle == ApiIdle /\ FilesIdle /\ PipelineIdle

\* The clinical-constraints module with no call made
ClinicalIdle ==
    /\ mode = "services"
    /\ raw = <<>>
    /\ alt = <<>>
    /\ constrained = NotCalled
    /\ constrainedAlt = NotCalled
    /\ reconstrained = NotCalled
    /\ validation = NotCalled
    /\ validationRaw = NotCalled
    /\ rng = 0
    /\ calls = [k \in Threads |-> Idle]
    /\ first = NotCalled
    /\ otherSince = FALSE

clinicalVars == <<mode, enfVars, genVars>>

InitEnforceMode ==
    /\ mode = "enforce"
    /\ \E adasCol \in AdasCols \cup MissingCols : \E p \in Profiles : \E q \in {r \in Profiles : r > p} :
          /\ raw = RawArray(adasCol, p)
          /\ alt = RawArray(adasCol, q)
    /\ constrained = NotCalled
    /\ constrainedAlt = NotCalled
    /\ reconstrained = NotCalled
    /\ validation = NotCalled
    /\ validationRaw = NotCalled
    /\ rng = 0
    /\ calls = [k \in Threads |-> Idle]
    /\ first = NotCalled
    /\ otherSince = FALSE
    /\ ServicesIdle

InitValidateMode ==
    /\ mode = "validate"
    /\ \E adasCol \in AdasCols \cup MissingCols : \E p \in Profiles :
          /\ raw = RawArray(adasCol, p)
          /\ alt = RawArray(adasCol, p)
    /\ constrained = NotCalled
    /\ constrainedAlt = NotCalled
    /\ reconstrained = NotCalled
    /\ validation = NotCalled
    /\ validationRaw = NotCalled
    /\ rng = 0
    /\ calls = [k \in Threads |-> Idle]
    /\ first = NotCalled
    /\ otherSince = FALSE
    /\ ServicesIdle

InitGenerateMode ==
    /\ mode = "generate"
    /\ raw = RawArray(ScenarioAdas, 1)
    /\ alt = RawArray(ScenarioAdas, 2)
    /\ constrained = NotCalled
    /\ constrainedAlt = NotCalled
    /\ reconstrained = NotCalled
    /\ validation = NotCalled
    /\ validationRaw = NotCalled
    /\ rng \in 0..(RngMod - 1)
    /\ calls = [k \in Threads |-> Idle]
    /\ first = NotCalled
    /\ otherSince = FALSE
    /\ ServicesIdle

\* ------------------------------------------------------------------------
\* Calls of enforce and validate
\* ------------------------------------------------------------------------
EnforceInPlace ==
    /\ mode \in {"enforce", "generate"}
    /\ constrained = NotCalled
    /\ constrained' = enforce_clinical_constraints(raw)
    /\ raw' = IF constrained'.status = "ok" THEN constrained'.value ELSE raw
    /\ UNCHANGED <<svcVars, mode, alt, constrainedAlt, reconstrained, validation, validationRaw,
                 genVars>>

Enforce ==
    /\ mode \in {"enforce", "generate"}
    /\ constrained = NotCalled
    /\ constrained' = enforce_clinical_constraints(raw)
    /\ UNCHANGED <<svcVars, mode, raw, alt, constrainedAlt, reconstrained, validation, validationRaw,
                 genVars>>

EnforceAlt ==
    /\ mode = "enforce"
    /\ constrainedAlt = NotCalled
    /\ constrainedAlt' = enforce_clinical_constraints(alt)
    /\ UNCHANGED <<svcVars, mode, raw, alt, constrained, reconstrained, validation, validationRaw,
                 genVars>>

\* enforce applied to its own output
EnforceAgain ==
    /\ mode = "enforce"
    /\ constrained.status = "ok"
    /\ reconstrained = NotCalled
    /\ reconstrained' = enforce_clinical_constraints(constrained.value)
    /\ UNCHANGED <<svcVars, mode, raw, alt, constrained, constrainedAlt, validation, validationRaw,
                 genVars>>

Validate ==
    /\ mode = "enforce"
    /\ constrained.status = "ok"
    /\ validation = NotCalled
    /\ validation' = validate_predictions(constrained.value)
    /\ UNCHANGED <<svcVars, mode, raw, alt, constrained, constrainedAlt, reconstrained,
                 validationRaw, genVars>>

\* validate applied to the raw array itself
ValidateRaw ==
    /\ mode = "validate"
    /\ validationRaw = NotCalled
    /\ validationRaw' = validate_predictions(raw)
    /\ UNCHANGED <<svcVars, mode, raw, alt, constrained, constrainedAlt, reconstrained,
                 validation, genVars>>

\* ------------------------------------------------------------------------
\* A call of generate, step by step.  The steps that touch the process-
\* global generator (np.random.seed, np.random.uniform) are the points at
\* which calls running in different threads interleave; the computation
\* between two of them is local to the call.
\* ------------------------------------------------------------------------
Last(seq) == seq[Len(seq)]

AfterSeed(c, drawing, next) ==
    IF num_timepoints(c.args) > 1 THEN drawing ELSE next

AfterDraw(c, walk, drawing, next) ==
    IF Len(walk) = num_timepoints(c.args) THEN next ELSE drawing

\* lines 28-44: the call starts, or raises: num_months // interval_months
\* with a zero interval (line 28), np.zeros with a negative length (line 29),
\* adas_trajectory[0] of an empty trajectory (line 44)
Raised(a, error) == [pc |-> "raised", args |-> a, error |-> error]

Started(a) ==
    IF a.interval_months = 0 THEN Raised(a, "ZeroDivisionError")
    ELSE IF num_timepoints(a) < 0 THEN Raised(a, "ValueError")
    ELSE IF num_timepoints(a) = 0 THEN Raised(a, "IndexError")
    ELSE [pc |-> "seed_adas", args |-> a,
          adas_trajectory |-> <<baseline_adas(a)>>,
          mmse_raw |-> <<>>, mmse_trajectory |-> <<>>,
          cdr_sob_raw |-> <<>>]

Call(k, a) ==
    /\ mode = "generate"
    /\ calls[k].pc \in {"idle", "done", "raised"}
    /\ calls' = [calls EXCEPT ![k] = Started(a)]
    /\ UNCHANGED <<svcVars, mode, enfVars, rng, first, otherSince>>

\* lines 28-44 in every thread: the threads call generate with the same
\* arguments (the start of a call touches no shared state)
CallTogether(a) ==
    /\ mode = "generate"
    /\ \A j \in Threads : calls[j].pc = "idle"
    /\ calls' = [j \in Threads |-> Started(a)]
    /\ UNCHANGED <<svcVars, mode, enfVars, rng, first, otherSince>>

SeedAdasSkipped(k) ==
    LET c == calls[k] IN
    /\ c.pc = "seed_adas"
    /\ calls' = [calls EXCEPT ![k].pc = AfterSeed(c, "draw_adas", "seed_mmse")]
    /\ UNCHANGED <<svcVars, mode, enfVars, rng, first, otherSince>>

\* line 47: np.random.seed(42)
SeedAdas(k) ==
    LET c == calls[k] IN
    /\ c.pc = "seed_adas"
    /\ rng' = RngSeed(42)
    /\ calls' = [calls EXCEPT ![k].pc = AfterSeed(c, "draw_adas", "seed_mmse")]
    /\ UNCHANGED <<svcVars, mode, enfVars, first, otherSince>>

\* lines 48-52: one iteration of the ADAS-Cog loop
DrawAdas(k) ==
    LET c == calls[k]
        walk == Append(c.adas_trajectory, AdasStep(Last(c.adas_trajectory), RngNext(rng)))
    IN
    /\ c.pc = "draw_adas"
    /\ rng' = RngNext(rng)
    /\ calls' = [calls EXCEPT ![k].adas_trajectory = walk,
                              ![k].pc = AfterDraw(c, walk, "draw_adas", "seed_mmse")]
    /\ UNCHANGED <<svcVars, mode, enfVars, first, otherSince>>

\* lines 48-52 with a generator whose samples are not known: each of the
\* first FreeDraws draws leaves the generator in any of the states
\* FreeStates (the smallest and the largest sample of [0, 1) among them),
\* the later draws repeat the sample before them
FreeStates == {0, RngMod - 1}

DrawAdasAny(k) ==
    LET c == calls[k] IN
    /\ c.pc = "draw_adas"
    /\ \E state \in FreeStates :
          LET walk == Append(c.adas_trajectory, AdasStep(Last(c.adas_trajectory), state))
          IN  /\ Len(c.adas_trajectory) > FreeDraws => state = rng
              /\ rng' = state
              /\ calls' = [calls EXCEPT ![k].adas_trajectory = walk,
                                        ![k].pc = AfterDraw(c, walk, "draw_adas", "seed_mmse")]
    /\ UNCHANGED <<svcVars, mode, enfVars, first, otherSince>>

\* lines 78-81 with a generator whose samples are not known, as DrawAdasAny
DrawMmseAny(k) ==
    LET c == calls[k] IN
    /\ c.pc = "draw_mmse"
    /\ \E state \in FreeStates :
          LET walk == Append(c.mmse_raw, MmseStep(Last(c.mmse_raw), state))
          IN  /\ Len(c.mmse_raw) > FreeDraws => state = rng
              /\ rng' = state
              /\ calls' = [calls EXCEPT ![k].mmse_raw = walk,
                                        ![k].pc = AfterDraw(c, walk, "draw_mmse", "seed_cdr_sob")]
    /\ UNCHANGED <<svcVars, mode, enfVars, first, otherSince>>

\* lines 57-77: rescale and clip ADAS-Cog, start the raw MMSE walk,
\* np.random.seed(43)
SeedMmse(k) ==
    LET c == calls[k] IN
    /\ c.pc = "seed_mmse"
    /\ rng' = RngSeed(43)
    /\ calls' = [calls EXCEPT ![k].adas_trajectory = AdasFinal(c.adas_trajectory),
                              ![k].mmse_raw = <<baseline_mmse(c.args)>>,
                              ![k].pc = AfterSeed(c, "draw_mmse", "seed_cdr_sob")]
    /\ UNCHANGED <<svcVars, mode, enfVars, first, otherSince>>

\* lines 78-81: one iteration of the raw MMSE loop
DrawMmse(k) ==
    LET c == calls[k]
        walk == Append(c.mmse_raw, MmseStep(Last(c.mmse_raw), RngNext(rng)))
    IN
    /\ c.pc = "draw_mmse"
    /\ rng' = RngNext(rng)
    /\ calls' = [calls EXCEPT ![k].mmse_raw = walk,
                              ![k].pc = AfterDraw(c, walk, "draw_mmse", "seed_cdr_sob")]
    /\ UNCHANGED <<svcVars, mode, enfVars, first, otherSince>>

\* lines 84-114: mod difference, rescale and clip of MMSE, start the raw
\* CDR-SOB walk, np.random.seed(44)
SeedCdrSob(k) ==
    LET c == calls[k] IN
    /\ c.pc = "seed_cdr_sob"
    /\ rng' = RngSeed(44)
    /\ calls' = [calls EXCEPT ![k].mmse_trajectory = MmseFinal(c.mmse_raw),
                              ![k].cdr_sob_raw = <<baseline_cdr_sob(c.args)>>,
                              ![k].pc = AfterSeed(c, "draw_cdr_sob", "return")]
    /\ UNCHANGED <<svcVars, mode, enfVars, first, otherSince>>

\* lines 115-118: one iteration of the raw CDR-SOB loop
DrawCdrSob(k) ==
    LET c == calls[k]
        walk == Append(c.cdr_sob_raw, CdrSobStep(Last(c.cdr_sob_raw), RngNext(rng)))
    IN
    /\ c.pc = "draw_cdr_sob"
    /\ rng' = RngNext(rng)
    /\ calls' = [calls EXCEPT ![k].cdr_sob_raw = walk,
                              ![k].pc = AfterDraw(c, walk, "draw_cdr_sob", "return")]
    /\ UNCHANGED <<svcVars, mode, enfVars, first, otherSince>>

\* lines 121-173: mod difference, rescale and clip of CDR-SOB, the CDR-Global
\* bands, the assembled array is returned
Return(k) ==
    LET c == calls[k]
        predictions == Assemble(c.mmse_trajectory, CdrSobFinal(c.cdr_sob_raw),
                                c.adas_trajectory)
    IN
    /\ c.pc = "return"
    /\ calls' = [calls EXCEPT ![k] =
                    [pc |-> "done", args |-> c.args, result |-> predictions]]
    /\ first' = IF first = NotCalled
                THEN [status |-> "ok", args |-> c.args, value |-> predictions]
                ELSE first
    /\ otherSince' = (otherSince \/ (first # NotCalled /\ first.args # c.args))
    /\ UNCHANGED <<svcVars, mode, enfVars, rng>>

\* validate applied to the array the call returned
ValidateGenerated(k) ==
    LET c == calls[k] IN
    /\ c.pc = "done"
    /\ "validation" \notin DOMAIN c
    /\ calls' = [calls EXCEPT ![k] =
                    [pc |-> "done", args |-> c.args, result |-> c.result,
                     validation |-> validate_predictions(c.result)]]
    /\ UNCHANGED <<svcVars, mode, enfVars, rng, first, otherSince>>

GenerateStep(k) ==
    \/ SeedAdas(k) \/ DrawAdas(k)
    \/ SeedMmse(k) \/ DrawMmse(k)
    \/ SeedCdrSob(k) \/ DrawCdrSob(k)
    \/ Return(k)

\* ------------------------------------------------------------------------
\* Specifications
\* ------------------------------------------------------------------------
\* Spec: one caller.  In mode "enforce" it calls enforce on its raw arrays
\* and on the output, and validate on the output; in mode "validate" it calls
\* validate on its raw array; in mode "generate" it calls enforce on its raw
\* array and calls generate again and again, one call after another,
\* validating what generate returned.
Init == InitEnforceMode \/ InitValidateMode \/ InitGenerateMode

Next ==
    \/ Enforce \/ EnforceAlt \/ EnforceAgain \/ Validate \/ ValidateRaw
    \/ \E a \in GenArgs : Call(1, a)
    \/ GenerateStep(1)
    \/ ValidateGenerated(1)

Spec == Init /\ [][Next]_vars

\* SpecConc: every thread calls generate, all with the same arguments, and
\* the threads' steps interleave.
InitConc == InitGenerateMode

NextConc ==
    \/ \E a \in ConcArgs : CallTogether(a)
    \/ \E k \in Threads : GenerateStep(k)

SpecConc == InitConc /\ [][NextConc]_vars

\* SpecAnyAdas: one call with the default arguments, every ADAS-Cog increment
\* being any sample the generator may return.
InitAnyAdas ==
    /\ InitGenerateMode
    /\ rng = 0

\* the one call of this specification
CallDefault ==
    /\ first = NotCalled
    /\ Call(1, DefaultArgs)

NextAnyAdas ==
    \/ CallDefault
    \/ SeedAdas(1) \/ DrawAdasAny(1)
    \/ SeedMmse(1) \/ DrawMmse(1)
    \/ SeedCdrSob(1) \/ DrawCdrSob(1)
    \/ Return(1)

SpecAnyAdas == InitAnyAdas /\ [][NextAnyAdas]_vars

\* SpecAnyMmse: one call, with the default arguments or with the longest
\* horizon for any baseline, every raw MMSE step being any sample the
\* generator may return.
AnyMmseArgs == {DefaultArgs} \cup {a \in GenArgs : a.num_months = MaxMonths}

CallOnce ==
    /\ first = NotCalled
    /\ \E a \in AnyMmseArgs : Call(1, a)

NextAnyMmse ==
    \/ CallOnce
    \/ SeedAdas(1) \/ DrawAdas(1)
    \/ SeedMmse(1) \/ DrawMmseAny(1)
    \/ SeedCdrSob(1) \/ DrawCdrSob(1)
    \/ Return(1)

SpecAnyMmse == InitAnyAdas /\ [][NextAnyMmse]_vars

\* ------------------------------------------------------------------------
\* backend/app/api/alzheimers.py: the predictions endpoints
\* ------------------------------------------------------------------------
MaxPosts == 3

PatientIds == {"033S0567", "patient-002"}

Scores(mmse, cdr_global, cdr_sob, adas_cog) ==
    [MMSE |-> mmse, CDR_Global |-> cdr_global, CDR_SOB |-> cdr_sob,
     ADAS_Cog |-> adas_cog]

\* Scores inside the clinical ranges, on their upper ends, and with one
\* field outside (or missing)
InRangeScores == Scores(RInt(25), Half, RInt(3), RInt(12))

TopScores == Scores(RInt(30), RInt(3), RInt(18), RInt(70))

OutOfRangeScores ==
    { Scores(RInt(31), Half, RInt(3), RInt(12)),
      Scores(NaN, Half, RInt(3), RInt(12)),
      Scores(RInt(25), <<3, 2>>, RInt(3), RInt(12)),
      Scores(RInt(25), Half, RInt(-1), RInt(12)),
      Scores(RInt(25), Half, RInt(3), RInt(71)) }

LastVisits ==
    [date : {"2024-01-15"}, scores : {InRangeScores, TopScores} \cup OutOfRangeScores]

FutureLists ==
    { <<>>,
      <<[months_ahead |-> 6, scores |-> InRangeScores]>>,
      <<[months_ahead |-> 6, scores |-> InRangeScores],
        [months_ahead |-> 12, scores |-> Scores(RInt(45), <<3, 2>>, RInt(20), RInt(90))]>> }

PredictionRequests ==
    [patient_id : PatientIds, prediction_time : {"t1", "t2"},
     last_visit : LastVisits, future_predictions : FutureLists]

valid_cdr == {RInt(0), Half, RInt(1), RInt(2), RInt(3)}

BadRequest(field) == [status |-> 400, detail |-> field]

\* the first check of receive_predictions that the last-visit scores fail
FirstInvalid(sc) ==
    IF ~(RLe(RInt(0), sc.MMSE) /\ RLe(sc.MMSE, RInt(30))) THEN "MMSE"
    ELSE IF sc.CDR_Global \notin valid_cdr THEN "CDR-Global"
    ELSE IF ~(RLe(RInt(0), sc.CDR_SOB) /\ RLe(sc.CDR_SOB, RInt(18))) THEN "CDR-SOB"
    ELSE IF ~(RLe(RInt(0), sc.ADAS_Cog) /\ RLe(sc.ADAS_Cog, RInt(70))) THEN "ADAS-Cog"
    ELSE "none"

Put(store, key, value) ==
    [k \in DOMAIN store \cup {key} |-> IF k = key THEN value ELSE store[k]]

PredictionResponse(prediction_data) ==
    [status |-> 200,
     body |-> [success |-> TRUE,
               message |-> "Predictions stored successfully",
               patient_id |-> prediction_data.patient_id,
               predictions_stored |-> Len(prediction_data.future_predictions)]]

\* receive_predictions storing the request before it checks the scores
receive_predictionsStoreFirst(store, prediction_data) ==
    LET bad == FirstInvalid(prediction_data.last_visit.scores)
    IN  [store |-> Put(store, prediction_data.patient_id, prediction_data),
         response |-> IF bad # "none" THEN BadRequest(bad)
                      ELSE PredictionResponse(prediction_data)]

\* the store and the response after POST /alzheimers/predictions
receive_predictions(store, prediction_data) ==
    LET bad == FirstInvalid(prediction_data.last_visit.scores)
    IN  IF bad # "none"
        THEN [store |-> store, response |-> BadRequest(bad)]
        ELSE [store |-> Put(store, prediction_data.patient_id, prediction_data),
              response |-> PredictionResponse(prediction_data)]

\* the response of GET /alzheimers/predictions/{patient_id}
get_predictions(store, patient_id) ==
    IF patient_id \notin DOMAIN store
    THEN [status |-> 404, detail |-> patient_id]
    ELSE [status |-> 200, body |-> store[patient_id]]

Post ==
    /\ posts < MaxPosts
    /\ \E prediction_data \in PredictionRequests :
          LET r == receive_predictions(predictions_store, prediction_data)
          IN  /\ predictions_store' = r.store
              /\ http' = [op |-> "POST", request |-> prediction_data,
                          response |-> r.response]
              /\ accepted' = IF r.response.status = 200
                             THEN Put(accepted, prediction_data.patient_id,
                                      prediction_data)
                             ELSE accepted
    /\ posts' = posts + 1
    /\ UNCHANGED <<clinicalVars, fileVars, pipeline>>

Get ==
    /\ \E patient_id \in PatientIds :
          http' = [op |-> "GET", patient_id |-> patient_id,
                   response |-> get_predictions(predictions_store, patient_id)]
    /\ UNCHANGED <<clinicalVars, fileVars, pipeline, predictions_store, accepted, posts>>

InitApi == ClinicalIdle /\ ServicesIdle

NextApi == Post \/ Get

SpecApi == InitApi /\ [][NextApi]_vars

\* ------------------------------------------------------------------------
\* backend/app/services/file_processor.py, api/files.py, workers/file_worker.py
\* ------------------------------------------------------------------------
MaxFiles == 2

FileIds == 1..MaxFiles

\* What happens inside one run of process_file: no text comes out of the
\* file, the text extraction raises, a FHIR call raises, the commit of the
\* processed flag raises, or everything succeeds.
ProcessOutcomes == {"no_text", "extract_raises", "fhir_raises", "commit_raises", "ok"}

\* The row upload_file inserts
NewRow == [processed |-> FALSE, processing_error |-> "None", processed_at |-> "None"]

\* The parameters of process_file after self, none with a default
ProcessFileParams ==
    {"db", "file_id", "patient_id", "fhir_patient_id", "file_path", "file_type"}

\* The keywords upload_file, reprocess_file and process_unprocessed_files
\* pass to process_file
CallerKeywords == {"db", "file_id", "patient_id", "file_path", "file_type"}

MarkProcessed(db, file_id) ==
    IF file_id \in DOMAIN db
    THEN [db EXCEPT ![file_id].processed = TRUE, ![file_id].processed_at = "utcnow"]
    ELSE db

RecordError(db, file_id, e) ==
    IF file_id \in DOMAIN db
    THEN [db EXCEPT ![file_id].processing_error = e]
    ELSE db

\* What the session holds, uncommitted, when the run raises
SessionAtRaise(db, file_id, outcome) ==
    IF outcome = "commit_raises" THEN MarkProcessed(db, file_id) ELSE db

\* process_file whose handler does not roll back before recording the error
process_fileNoRollback(db, file_id, outcome) ==
    IF outcome = "no_text" THEN [status |-> "ok", db |-> db, returned |-> FALSE]
    ELSE IF outcome = "ok"
    THEN [status |-> "ok", db |-> MarkProcessed(db, file_id), returned |-> TRUE]
    ELSE [status |-> "ok",
          db |-> RecordError(SessionAtRaise(db, file_id, outcome), file_id, outcome),
          returned |-> FALSE]

\* The body of process_file on the committed table db
process_file(db, file_id, outcome) ==
    IF outcome = "no_text" THEN [status |-> "ok", db |-> db, returned |-> FALSE]
    ELSE IF outcome = "ok"
    THEN [status |-> "ok", db |-> MarkProcessed(db, file_id), returned |-> TRUE]
    ELSE LET session == SessionAtRaise(db, file_id, outcome)
             rolledBack == db      \* db.rollback() drops what session holds
         IN  [status |-> "ok",
              db |-> RecordError(rolledBack, file_id, outcome),
              returned |-> FALSE]

\* A call of process_file with the given keyword arguments: Python binds
\* the arguments before the body runs
CallProcessFile(db, keywords, file_id, outcome) ==
    IF keywords # ProcessFileParams
    THEN [status |-> "raised", error |-> "TypeError", db |-> db]
    ELSE process_file(db, file_id, outcome)

Unprocessed(db) == {id \in DOMAIN db : db[id].processed = FALSE}

RECURSIVE Ascending(_)
Ascending(ids) ==
    IF ids = {} THEN <<>>
    ELSE LET m == CHOOSE x \in ids : \A y \in ids : x <= y
         IN  <<m>> \o Ascending(ids \ {m})

\* The loop of process_unprocessed_files over the rows its query returned
RECURSIVE ProcessEach(_, _, _, _, _)
ProcessEach(db, unprocessed_files, outcomes, processed_count, invoked) ==
    IF unprocessed_files = <<>>
    THEN [status |-> "ok", db |-> db, returned |-> processed_count,
          invoked |-> invoked]
    ELSE LET id == Head(unprocessed_files)
             r == CallProcessFile(db, CallerKeywords, id, outcomes[id])
         IN  IF r.status = "raised"
             THEN [status |-> "raised", error |-> r.error, db |-> r.db,
                   invoked |-> invoked]
             ELSE ProcessEach(r.db, Tail(unprocessed_files), outcomes,
                              IF r.returned THEN processed_count + 1
                              ELSE processed_count,
                              Append(invoked, id))

process_unprocessed_files(db, outcomes) ==
    ProcessEach(db, Ascending(Unprocessed(db)), outcomes, 0, <<>>)

\* process_file called with every parameter
ProcessFile ==
    /\ \E file_id \in DOMAIN File : \E outcome \in ProcessOutcomes :
          LET r == CallProcessFile(File, ProcessFileParams, file_id, outcome)
          IN  /\ File' = r.db
              /\ fileCall' = [op |-> "process_file", file_id |-> file_id,
                              outcome |-> outcome, returned |-> r.returned]
    /\ UNCHANGED <<clinicalVars, apiVars, pipeline>>

\* POST /files/upload of a file that passes the checks
UploadFile ==
    /\ Cardinality(DOMAIN File) < MaxFiles
    /\ \E outcome \in ProcessOutcomes :
          LET id == Cardinality(DOMAIN File) + 1
              r == CallProcessFile(Put(File, id, NewRow), CallerKeywords, id, outcome)
          IN  /\ File' = r.db
              /\ fileCall' = [op |-> "upload_file", file_id |-> id, status |-> 201,
                              processing |-> IF r.status = "raised" THEN r.error
                                             ELSE "ran"]
    /\ UNCHANGED <<clinicalVars, apiVars, pipeline>>

\* POST /files/{file_id}/reprocess
ReprocessFile ==
    /\ \E file_id \in FileIds : \E outcome \in ProcessOutcomes :
          IF file_id \notin DOMAIN File
          THEN /\ File' = File
               /\ fileCall' = [op |-> "reprocess_file", file_id |-> file_id,
                               status |-> 404]
          ELSE LET r == CallProcessFile(Put(File, file_id, NewRow), CallerKeywords,
                                        file_id, outcome)
               IN  /\ File' = r.db
                   /\ fileCall' = [op |-> "reprocess_file", file_id |-> file_id,
                                   status |-> IF r.status = "ok" /\ r.returned
                                              THEN 200 ELSE 500]
    /\ UNCHANGED <<clinicalVars, apiVars, pipeline>>

\* process_unprocessed_files called by POST /files/process-unprocessed
ProcessUnprocessedFiles ==
    /\ \E outcomes \in [FileIds -> ProcessOutcomes] :
          LET r == process_unprocessed_files(File, outcomes)
          IN  /\ File' = r.db
              /\ fileCall' = [op |-> "process_unprocessed_files",
                              unprocessed |-> Unprocessed(File),
                              status |-> r.status, invoked |-> r.invoked,
                              returned |-> IF r.status = "ok" THEN r.returned
                                           ELSE "nothing"]
    /\ UNCHANGED <<clinicalVars, apiVars, pipeline>>

\* One round of the loop of process_files_worker
WorkerRound ==
    /\ \E outcomes \in [FileIds -> ProcessOutcomes] :
          LET r == process_unprocessed_files(File, outcomes)
          IN  /\ File' = r.db
              /\ fileCall' = [op |-> "process_files_worker",
                              unprocessed |-> Unprocessed(File),
                              invoked |-> r.invoked,
                              logged |-> IF r.status = "raised"
                                         THEN "Error in file processing worker"
                                         ELSE IF r.returned > 0 THEN "Processed"
                                         ELSE "No unprocessed files found"]
    /\ UNCHANGED <<clinicalVars, apiVars, pipeline>>

InitFiles == ClinicalIdle /\ ServicesIdle

NextFiles ==
    ProcessFile \/ UploadFile \/ ReprocessFile \/ ProcessUnprocessedFiles \/ WorkerRound

SpecFiles == InitFiles /\ [][NextFiles]_vars

\* ------------------------------------------------------------------------
\* adni-python/api/run_pipeline.py
\* ------------------------------------------------------------------------
MaxSessions == 3

SessionDates == <<"2022-01-10", "2022-07-12", "2023-01-09", "2023-07-11", "2024-01-15">>

\* What predict_progression.py leaves behind: a non-zero return code, no
\* result file, or a result file with this content
ResultFull ==
    [patient_id |-> "033S0567",
     prediction_timestamp |-> "t1",
     historical_sessions |->
        <<[session_date |-> "2024-01-15", predicted_scores |-> InRangeScores]>>,
     future_predictions |->
        <<[months_from_last_visit |-> 6, predicted_scores |-> InRangeScores]>>]

ResultTwoAhead ==
    [ResultFull EXCEPT !.future_predictions =
        @ \o <<[months_from_last_visit |-> 12, predicted_scores |-> TopScores]>>]

ResultNoHistory == [ResultFull EXCEPT !.historical_sessions = <<>>]

ResultEmpty == <<>>

PredictionRuns ==
    { [returncode |-> 1, exists |-> FALSE, file |-> ResultEmpty],
      [returncode |-> 1, exists |-> TRUE, file |-> ResultFull],
      [returncode |-> 0, exists |-> FALSE, file |-> ResultEmpty],
      [returncode |-> 0, exists |-> TRUE, file |-> ResultFull],
      [returncode |-> 0, exists |-> TRUE, file |-> ResultTwoAhead],
      [returncode |-> 0, exists |-> TRUE, file |-> ResultNoHistory],
      [returncode |-> 0, exists |-> TRUE, file |-> ResultEmpty] }

\* What requests.post meets
Replies == {"200", "200 without message", "400", "500", "ImportError",
            "ConnectionError", "Timeout"}

\* Python's None, and the exit status of a process still running
None == [none |-> TRUE]

Running == -1

\* the value run_predictions returns
run_predictions(run) ==
    IF run.returncode # 0 THEN None
    ELSE IF ~run.exists THEN None
    ELSE run.file

\* Python's truth value of what run_predictions returned
Truthy(results) == results # None /\ results # <<>>

format_clean_output(results) ==
    IF results.historical_sessions = <<>>
    THEN [status |-> "raised", error |-> "IndexError"]
    ELSE LET last_session == Last(results.historical_sessions)
         IN  [status |-> "ok",
              value |->
                [patient_id |-> results.patient_id,
                 prediction_time |-> results.prediction_timestamp,
                 last_visit |-> [date |-> last_session.session_date,
                                 scores |-> last_session.predicted_scores],
                 future_predictions |->
                    [i \in 1..Len(results.future_predictions) |->
                        [months_ahead |->
                            results.future_predictions[i].months_from_last_visit,
                         scores |-> results.future_predictions[i].predicted_scores]]]]

\* the value send_to_backend returns
send_to_backend(reply) ==
    IF reply = "200" THEN TRUE
    ELSE IF reply \in {"400", "500"} THEN FALSE
    ELSE TRUE

Exit(p, code, lines) ==
    [p EXCEPT !.pc = "exited", !.exit = code, !.stdout = p.stdout \o lines]

Ran(p, step) == [p EXCEPT !.ran = Append(p.ran, step)]

\* preprocess_scans going on to the next session after a failure
AfterPreprocessKeepGoing(p, returncode) ==
    LET q == Ran(p, [step |-> "preprocess", session |-> p.unprocessed[p.i],
                     returncode |-> returncode])
    IN  IF p.i = Len(p.unprocessed)
        THEN [q EXCEPT !.pc = "predict", !.i = p.i + 1]
        ELSE [q EXCEPT !.i = p.i + 1]

\* one round of the loop of preprocess_scans, and main's test of its result
AfterPreprocess(p, returncode) ==
    LET q == Ran(p, [step |-> "preprocess", session |-> p.unprocessed[p.i],
                     returncode |-> returncode])
    IN  IF returncode # 0
        THEN Exit(q, 1, <<"[FAIL] Pipeline failed during preprocessing">>)
        ELSE IF p.i = Len(p.unprocessed)
        THEN [q EXCEPT !.pc = "predict", !.i = p.i + 1]
        ELSE [q EXCEPT !.i = p.i + 1]

\* main up to the result of check_for_new_scans
CheckForNewScans ==
    /\ pipeline.pc = "idle"
    /\ \E patient_id \in PatientIds : \E n \in 0..MaxSessions :
          pipeline' = [pc |-> IF n = 0 THEN "predict" ELSE "preprocess",
                       patient_id |-> patient_id,
                       unprocessed |-> SubSeq(SessionDates, 1, n),
                       i |-> 1,
                       ran |-> <<>>,
                       results |-> None,
                       stdout |-> IF n = 0
                                  THEN <<"All scans already preprocessed">>
                                  ELSE <<"Found unprocessed session(s)">>,
                       exit |-> Running]
    /\ UNCHANGED <<clinicalVars, apiVars, fileVars>>

PreprocessSession ==
    /\ pipeline.pc = "preprocess"
    /\ \E returncode \in {0, 1} : pipeline' = AfterPreprocess(pipeline, returncode)
    /\ UNCHANGED <<clinicalVars, apiVars, fileVars>>

RunPredictions ==
    /\ pipeline.pc = "predict"
    /\ \E run \in PredictionRuns :
          LET results == run_predictions(run)
              q == Ran(pipeline, [step |-> "predict", returncode |-> run.returncode])
          IN  pipeline' =
                IF ~Truthy(results)
                THEN Exit(q, 1, <<"[FAIL] Pipeline failed during prediction">>)
                ELSE [q EXCEPT !.pc = "format", !.results = results,
                               !.stdout = q.stdout \o <<"[OK] Predictions complete">>]
    /\ UNCHANGED <<clinicalVars, apiVars, fileVars>>

FormatCleanOutput ==
    /\ pipeline.pc = "format"
    /\ LET clean_output == format_clean_output(pipeline.results)
           q == Ran(pipeline, [step |-> "format"])
       IN  pipeline' =
             IF clean_output.status = "raised"
             THEN Exit(q, 1, <<"Traceback">>)
             ELSE [q EXCEPT !.pc = "send", !.results = clean_output.value,
                            !.stdout = q.stdout \o <<"PREDICTION SCORES">>]
    /\ UNCHANGED <<clinicalVars, apiVars, fileVars>>

SendToBackend ==
    /\ pipeline.pc = "send"
    /\ \E reply \in Replies :
          LET q == Ran(pipeline, [step |-> "send", reply |-> reply])
          IN  pipeline' =
                IF send_to_backend(reply)
                THEN Exit(q, 0, <<"[OK] Results sent to backend", "PIPELINE COMPLETE">>)
                ELSE Exit(q, 1, <<"[FAIL] Failed to send results to backend">>)
    /\ UNCHANGED <<clinicalVars, apiVars, fileVars>>

InitPipeline == ClinicalIdle /\ ServicesIdle

NextPipeline ==
    CheckForNewScans \/ PreprocessSession \/ RunPredictions \/ FormatCleanOutput
        \/ SendToBackend

SpecPipeline == InitPipeline /\ [][NextPipeline]_vars

\* ------------------------------------------------------------------------
\* Properties
\* ------------------------------------------------------------------------
\* The arrays enforce returned for a raw input with every ADAS-Cog value
\* present, and the arrays generate returned
EnforceOutputs ==
    IF HasMissing(raw) THEN {}
    ELSE {o.value : o \in {x \in {constrained, constrainedAlt, reconstrained} :
                              x.status = "ok"}}

GenerateOutputs ==
    {calls[k].result : k \in {j \in Threads : calls[j].pc = "done"}}

Zero == RInt(0)

\* C1: a call that ran concurrently with another call of the same arguments
\* returns exactly the array a call running alone returns.
C1_ConcurrentCallsReproducible ==
    \A k \in Threads :
        calls[k].pc = "done" =>
            calls[k].result = generate_future_predictions(calls[k].args)

\* C2: when calls run one after another, a call with the arguments of the
\* first call returns the array the first call returned, whatever calls with
\* other arguments ran in between.
C2_SequentialCallsDeterministic ==
    (calls[1].pc = "done" /\ first.status = "ok" /\ calls[1].args = first.args)
        => calls[1].result = first.value

\* A later call with the first call's arguments has returned, after a call
\* with other arguments, and it drew from the generator.
C2_Witness ==
    /\ calls[1].pc = "done"
    /\ first.status = "ok"
    /\ calls[1].args = first.args
    /\ otherSince
    /\ num_timepoints(calls[1].args) >= 3

\* C3: validate reports every rule as satisfied on every output of enforce
\* for a raw input with every ADAS-Cog value present: the four ranges,
\* ADAS-Cog non-decreasing, MMSE non-increasing, all_valid.
C3_EnforcedOutputValidates ==
    (constrained.status = "ok" /\ validation # NotCalled /\ ~HasMissing(raw)) =>
        /\ validation.status = "ok"
        /\ validation.value.mmse_valid
        /\ validation.value.cdr_global_valid
        /\ validation.value.cdr_sob_valid
        /\ validation.value.adas_valid
        /\ validation.value.adas_monotonic
        /\ validation.value.mmse_monotonic_decreasing
        /\ validation.value.all_valid

\* validate ran on the output of enforce for a raw array that broke the
\* rules: ADAS-Cog out of range and decreasing, other columns out of range.
C3_Witness ==
    /\ validation.status = "ok"
    /\ Len(raw) >= 3
    /\ ~validate_predictions(raw).value.adas_valid
    /\ ~validate_predictions(raw).value.adas_monotonic
    /\ ~validate_predictions(raw).value.mmse_valid
    /\ ~validate_predictions(raw).value.cdr_global_valid
    /\ ~validate_predictions(raw).value.cdr_sob_valid

\* C4: adas_cog[t] >= adas_cog[t-1] for all t > 0 in every output of generate
\* and every output of enforce.
C4_AdasMonotonic ==
    \A o \in EnforceOutputs \cup GenerateOutputs :
        \A t \in 2..Len(o) : RLe(o[t-1][4], o[t][4])

\* generate returned a rescaled trajectory (the walk ended above 70) and
\* enforce returned the repair of a decreasing raw ADAS-Cog column.
C4_Witness ==
    /\ calls[1].pc = "done"
    /\ Len(calls[1].result) >= 3
    /\ RLt(RInt(69), baseline_adas(calls[1].args))
    /\ constrained.status = "ok"
    /\ \E t \in 2..Len(raw) : RLt(raw[t][4], raw[t-1][4])

\* C5: every value of every output of generate and of enforce is in its
\* domain: mmse in [0,30], cdr_sob in [0,18], adas_cog in [0,70], cdr_global
\* one of 0, 0.5, 1, 2, 3.
C5_RangeContainment ==
    \A o \in EnforceOutputs \cup GenerateOutputs :
        \A t \in 1..Len(o) :
            /\ RLe(Zero, o[t][1]) /\ RLe(o[t][1], RInt(30))
            /\ o[t][2] \in {<<0, 1>>, <<1, 2>>, <<1, 1>>, <<2, 1>>, <<3, 1>>}
            /\ RLe(Zero, o[t][3]) /\ RLe(o[t][3], RInt(18))
            /\ RLe(Zero, o[t][4]) /\ RLe(o[t][4], RInt(70))

\* generate returned for a baseline above (or below) every range, and enforce
\* returned for a raw array whose accumulated ADAS-Cog passed 70.
C5_Witness ==
    /\ calls[1].pc = "done"
    /\ Len(calls[1].result) >= 2
    /\ \/ RLt(RInt(70), baseline_adas(calls[1].args))
       \/ RLt(baseline_adas(calls[1].args), Zero)
    /\ constrained.status = "ok"
    /\ \E t \in 1..Len(raw) : RLt(RInt(70), AdasAccum(Col(raw, 4), t))

\* C6: cdr_global[t] is the band of the output's own adas_cog[t]: 0 below 10,
\* 0.5 from 10 to below 20, 1 from 20 to below 32, 2 from 32 to below 55,
\* 3 from 55.
C6_BandOf(adas) ==
    IF adas[1] < 10 * adas[2] THEN <<0, 1>>
    ELSE IF adas[1] < 20 * adas[2] THEN <<1, 2>>
    ELSE IF adas[1] < 32 * adas[2] THEN <<1, 1>>
    ELSE IF adas[1] < 55 * adas[2] THEN <<2, 1>>
    ELSE <<3, 1>>

C6_CdrGlobalBanding ==
    \A o \in EnforceOutputs \cup GenerateOutputs :
        \A t \in 1..Len(o) : o[t][2] = C6_BandOf(o[t][4])

\* enforce returned an array with ADAS-Cog exactly on two band boundaries
\* and generate returned one that starts exactly on a boundary.
C6_Witness ==
    /\ constrained.status = "ok"
    /\ \E t \in 1..Len(constrained.value) :
          constrained.value[t][4] \in {RInt(10), RInt(32)}
    /\ \E t \in 1..Len(constrained.value) :
          constrained.value[t][4] \in {RInt(20), RInt(55)}
    /\ calls[1].pc = "done"
    /\ calls[1].result[1][4] = RInt(20)

\* C7: enforce applied to an output of enforce returns that output.
C7_EnforceIdempotent ==
    (constrained.status = "ok" /\ reconstrained # NotCalled) =>
        /\ reconstrained.status = "ok"
        /\ reconstrained.value = constrained.value

\* enforce was applied twice to a raw array whose first ADAS-Cog is outside
\* [0,70] and whose accumulated ADAS-Cog was clipped at 70.
C7_Witness ==
    /\ reconstrained.status = "ok"
    /\ Len(raw) >= 2
    /\ \/ RLt(raw[1][4], Zero)
       \/ RLt(RInt(70), raw[1][4])
    /\ \E t \in 2..Len(raw) : RLt(RInt(70), AdasAccum(Col(raw, 4), t))
    /\ \E t \in 2..Len(raw) : RLt(raw[t][4], raw[t-1][4])

\* C8: the repaired adas_cog is fixed[0] = clip(raw[0], 0, 70),
\* fixed[t] = fixed[t-1] + |raw[t] - raw[t-1]|, then every value clipped to
\* [0,70]; raw adas_cog [40, 30, 50] is repaired to [40, 50, 70].
RECURSIVE C8_Fixed(_, _)
C8_Fixed(raw_adas, t) ==
    IF t = 1
    THEN (IF RLt(raw_adas[1], Zero) THEN Zero
          ELSE IF RLt(RInt(70), raw_adas[1]) THEN RInt(70)
          ELSE raw_adas[1])
    ELSE LET d == RSub(raw_adas[t], raw_adas[t-1])
         IN  RAdd(C8_Fixed(raw_adas, t-1), IF d[1] < 0 THEN RNeg(d) ELSE d)

C8_Clipped(v) ==
    IF RLt(v, Zero) THEN Zero ELSE IF RLt(RInt(70), v) THEN RInt(70) ELSE v

C8_AdasRepair ==
    (constrained.status = "ok" /\ ~HasMissing(raw)) =>
        /\ \A t \in 1..Len(raw) :
              constrained.value[t][4] = C8_Clipped(C8_Fixed(Col(raw, 4), t))
        /\ Col(raw, 4) = <<RInt(40), RInt(30), RInt(50)>>
              => Col(constrained.value, 4) = <<RInt(40), RInt(50), RInt(70)>>

\* enforce returned for a raw array whose ADAS-Cog starts below 0 and then
\* rises, so that the first clip changes every later value.
C8_Witness ==
    /\ constrained.status = "ok"
    /\ Len(raw) >= 2
    /\ RLt(raw[1][4], Zero)
    /\ RLt(raw[1][4], raw[2][4])

\* C9: two raw arrays of the same length with equal adas_cog columns get
\* identical outputs from enforce, whatever their other three columns hold.
C9_OnlyAdasMatters ==
    (/\ constrained # NotCalled
     /\ constrainedAlt # NotCalled
     /\ Col(raw, 4) = Col(alt, 4))
        => constrained = constrainedAlt

\* enforce returned for two raw arrays that agree on ADAS-Cog and differ in
\* mmse, cdr_global and cdr_sob at every timepoint.
C9_Witness ==
    /\ constrained.status = "ok"
    /\ constrainedAlt.status = "ok"
    /\ Len(raw) >= 2
    /\ Col(raw, 4) = Col(alt, 4)
    /\ \A t \in 1..Len(raw) : \A c \in 1..3 : raw[t][c] # alt[t][c]

\* C10: in every output of enforce, mmse = clip(30 - adas_cog*30/70, 0, 30)
\* and cdr_sob = clip(adas_cog*18/70, 0, 18) for the repaired adas_cog of the
\* same timepoint; adas_cog 0 gives 30 and 0, adas_cog 70 gives 0 and 18.
C10_ClipTo(n, d, hi) ==
    IF n < 0 THEN <<0, 1>> ELSE IF n > hi * d THEN <<hi, 1>> ELSE <<n, d>>

C10_SameNumber(x, y) == x[1] * y[2] = y[1] * x[2]

C10_DerivedScores ==
    \A o \in EnforceOutputs :
        \A t \in 1..Len(o) :
            LET n == o[t][4][1]
                d == o[t][4][2]
            IN  /\ C10_SameNumber(o[t][1], C10_ClipTo(2100 * d - 30 * n, 70 * d, 30))
                /\ C10_SameNumber(o[t][3], C10_ClipTo(18 * n, 70 * d, 18))
                /\ o[t][4] = <<0, 1>> => (o[t][1] = <<30, 1>> /\ o[t][3] = <<0, 1>>)
                /\ o[t][4] = <<70, 1>> => (o[t][1] = <<0, 1>> /\ o[t][3] = <<18, 1>>)

\* enforce returned an array that holds adas_cog 0, adas_cog 70 and a value
\* strictly in between.
C10_Witness ==
    /\ constrained.status = "ok"
    /\ \E t \in 1..Len(constrained.value) : constrained.value[t][4] = <<0, 1>>
    /\ \E t \in 1..Len(constrained.value) : constrained.value[t][4] = <<70, 1>>
    /\ \E t \in 1..Len(constrained.value) :
          /\ RLt(Zero, constrained.value[t][4])
          /\ RLt(constrained.value[t][4], RInt(70))

\* C11: enforce fails, and returns no sequence, when its input is empty or
\* a timepoint of its input has no ADAS-Cog value.
C11_MalformedInputFails ==
    (constrained # NotCalled /\ (Len(raw) = 0 \/ HasMissing(raw))) =>
        constrained.status = "raised"

\* C12: generate never returns a sequence for a horizon or an interval that
\* is zero or negative.
C12_NonPositiveRejected ==
    \A k \in Threads :
        calls[k].pc = "done" =>
            (calls[k].args.num_months > 0 /\ calls[k].args.interval_months > 0)

\* C13: validate on an empty sequence raises no exception and returns a
\* report.
C13_EmptyValidates ==
    (Len(raw) = 0 /\ validationRaw # NotCalled) => validationRaw.status = "ok"

\* The array thread k's call returned has been validated
Validated(k) == calls[k].pc = "done" /\ "validation" \in DOMAIN calls[k]

\* C14: all_valid is true exactly when the five checks hold on the validated
\* sequence: mmse in [0,30], cdr_global one of 0, 0.5, 1, 2, 3 (so 1.5 and
\* 2.5 fail), cdr_sob in [0,18], adas_cog in [0,70], adas_cog non-decreasing;
\* whether mmse decreases plays no part.
C14_Between(v, lo, hi) == RLe(RInt(lo), v) /\ RLe(v, RInt(hi))

C14_FiveChecks(p) ==
    /\ \A t \in 1..Len(p) :
          /\ C14_Between(p[t][1], 0, 30)
          /\ p[t][2] \in {<<0, 1>>, <<1, 2>>, <<1, 1>>, <<2, 1>>, <<3, 1>>}
          /\ C14_Between(p[t][3], 0, 18)
          /\ C14_Between(p[t][4], 0, 70)
    /\ \A t \in 2..Len(p) : RLe(p[t-1][4], p[t][4])

C14_AllValidIsFiveChecks ==
    /\ validationRaw.status = "ok" =>
          (validationRaw.value.all_valid <=> C14_FiveChecks(raw))
    /\ validation.status = "ok" =>
          (validation.value.all_valid <=> C14_FiveChecks(constrained.value))
    /\ \A k \in Threads :
          Validated(k) =>
              (calls[k].validation.value.all_valid <=> C14_FiveChecks(calls[k].result))

\* validate ran on a raw sequence whose only defect is a cdr_global of 1.5,
\* a value inside [0,3] that is not one of the five.
C14_Witness ==
    /\ validationRaw.status = "ok"
    /\ \E t \in 1..Len(raw) : raw[t][2] = <<3, 2>>
    /\ validationRaw.value.mmse_valid
    /\ validationRaw.value.cdr_sob_valid
    /\ validationRaw.value.adas_valid
    /\ validationRaw.value.adas_monotonic
    /\ ~validationRaw.value.cdr_global_valid
    /\ ~validationRaw.value.all_valid

\* C15: on every sequence generate returns with at least two timepoints for
\* a baseline mmse >= 0, validate reports mmse_monotonic_decreasing = false
\* and all_valid = true.
C15_GeneratedMmseRisesYetValid ==
    \A k \in Threads :
        (/\ Validated(k)
         /\ Len(calls[k].result) >= 2
         /\ RLe(Zero, baseline_mmse(calls[k].args))) =>
            /\ calls[k].validation.status = "ok"
            /\ ~calls[k].validation.value.mmse_monotonic_decreasing
            /\ calls[k].validation.value.all_valid

\* A returned sequence of three or more timepoints, for a baseline mmse
\* above 30 (rescaled), has been validated.
C15_Witness ==
    /\ Validated(1)
    /\ Len(calls[1].result) >= 3
    /\ RLt(RInt(30), baseline_mmse(calls[1].args))
    /\ ~calls[1].validation.value.mmse_monotonic_decreasing
    /\ calls[1].validation.value.all_valid

\* C16: generate returns exactly horizon // interval + 1 timepoints, each of
\* four fields in the order mmse, cdr_global, cdr_sob, adas_cog; horizon 90
\* with interval 6 gives 16 timepoints.  The order shows in the first row,
\* which holds the baseline of each score that was neither rescaled nor
\* clipped, and in cdr_global being the band of the adas_cog field.
C16_Untouched(col, baseline, limit, target) ==
    /\ RLe(Zero, baseline)
    /\ RLe(col[Len(col)], limit)
    /\ col[Len(col)] # target

C16_ShapeAndOrder ==
    \A k \in Threads :
        calls[k].pc = "done" =>
            LET a == calls[k].args
                r == calls[k].result
            IN  /\ Len(r) = (a.num_months \div a.interval_months) + 1
                /\ (a.num_months = 90 /\ a.interval_months = 6) => Len(r) = 16
                /\ \A t \in 1..Len(r) :
                      /\ Len(r[t]) = 4
                      /\ r[t][2] = C6_BandOf(r[t][4])
                /\ C16_Untouched(Col(r, 1), baseline_mmse(a), RInt(30), RInt(30))
                      => r[1][1] = baseline_mmse(a)
                /\ C16_Untouched(Col(r, 3), baseline_cdr_sob(a), RInt(18), RInt(18))
                      => r[1][3] = baseline_cdr_sob(a)
                /\ C16_Untouched(Col(r, 4), baseline_adas(a), RInt(70), <<613, 10>>)
                      => r[1][4] = baseline_adas(a)

\* The call with horizon 90 and interval 6 returned.
C16_Witness ==
    /\ calls[1].pc = "done"
    /\ calls[1].args.num_months = 90
    /\ calls[1].args.interval_months = 6
    /\ Len(calls[1].result) = 16

\* C17: for the default baseline, horizon 90 and interval 6, whatever the 15
\* ADAS-Cog increments drawn from [1.4, 1.9]: adas_cog[0] = 28.9, adas_cog[15]
\* lies in [28.9, 61.3], adas_cog never decreases, cdr_global[0] = 1.0.
C17_Adas(adas) ==
    /\ Len(adas) = 16
    /\ adas[1] = <<289, 10>>
    /\ RLe(<<289, 10>>, adas[16])
    /\ RLe(adas[16], <<613, 10>>)
    /\ \A t \in 2..16 : RLe(adas[t-1], adas[t])

C17_DefaultScenario ==
    LET c == calls[1] IN
    /\ (c.pc \in {"draw_mmse", "seed_cdr_sob", "draw_cdr_sob", "return"}
         /\ c.args = DefaultArgs) => C17_Adas(c.adas_trajectory)
    /\ (c.pc = "done" /\ c.args = DefaultArgs) =>
          /\ C17_Adas(Col(c.result, 4))
          /\ c.result[1][2] = <<1, 1>>

\* The default call returned after drawing the largest sample fifteen times:
\* its ADAS-Cog ends near the top of the reachable values, below 57.4.
C17_Witness ==
    /\ calls[1].pc = "done"
    /\ calls[1].args = DefaultArgs
    /\ RLt(<<569, 10>>, calls[1].result[16][4])

\* C18: when the ADAS-Cog walk ends above 70, every value of it, the
\* baseline included, is multiplied by 61.3 / final, so that the last value
\* is 61.3 and no value exceeds 61.3; when it ends at or below 70, also
\* between 61.3 and 70, it is not rescaled and the output is the walk clipped
\* to [0,70].  Products are those of real numbers.
C18_Clip(v) ==
    IF RLt(v, Zero) THEN Zero ELSE IF RLt(RInt(70), v) THEN RInt(70) ELSE v

C18_Rescaled(walk, out) ==
    LET n == Len(walk)
        final == walk[n]
    IN  /\ Len(out) = n
        /\ IF RLt(RInt(70), final)
           THEN /\ \A t \in 1..n :
                     IF RLt(walk[t], Zero) THEN out[t] = Zero
                     ELSE RMul(out[t], final) = RMul(walk[t], <<613, 10>>)
                /\ out[n] = <<613, 10>>
                /\ \A t \in 1..n : RLe(out[t], <<613, 10>>)
           ELSE \A t \in 1..n : out[t] = C18_Clip(walk[t])

C18_AdasRescale ==
    [][\A k \in Threads :
          (calls[k].pc = "seed_mmse" /\ calls'[k].pc # "seed_mmse") =>
              C18_Rescaled(calls[k].adas_trajectory, calls'[k].adas_trajectory)]_vars

\* A call for the baseline ADAS-Cog 69 with three or more timepoints
\* returned: its walk passed 70 and was rescaled to end at 61.3.
C18_Witness ==
    /\ calls[1].pc = "done"
    /\ baseline_adas(calls[1].args) = RInt(69)
    /\ Len(calls[1].result) >= 3
    /\ calls[1].result[Len(calls[1].result)][4] = <<613, 10>>
    /\ RLt(calls[1].result[1][4], <<613, 10>>)

\* C19: the reported mmse and cdr_sob never decrease, also after the rescale
\* and the clip.  The raw walks step by an amount of size 1.0 to 1.4 (mmse)
\* and 0.5 to 0.9 (cdr_sob), and each reported step adds |raw[t] - raw[t-1]|
\* to the value before it: the reported step is exactly that amount when the
\* trajectory is neither rescaled nor clipped.
RECURSIVE C19_Acc(_, _)
C19_Acc(walk, t) ==
    IF t = 1 THEN walk[1]
    ELSE LET d == RSub(walk[t], walk[t-1])
         IN  RAdd(C19_Acc(walk, t-1), IF d[1] < 0 THEN RNeg(d) ELSE d)

C19_StepSize(walk, t) ==
    LET d == RSub(walk[t], walk[t-1]) IN IF d[1] < 0 THEN RNeg(d) ELSE d

C19_Reported(walk, out, limit, lo, hi) ==
    LET n == Len(walk) IN
    /\ Len(out) = n
    /\ \A t \in 2..n :
          /\ RLe(lo, C19_StepSize(walk, t))
          /\ RLe(C19_StepSize(walk, t), hi)
          /\ RLe(out[t-1], out[t])
    /\ (RLe(Zero, walk[1]) /\ RLe(C19_Acc(walk, n), limit)) =>
          \A t \in 2..n : RSub(out[t], out[t-1]) = C19_StepSize(walk, t)

C19_ReportedScoresRise ==
    [][\A k \in Threads :
          /\ (calls[k].pc = "seed_cdr_sob" /\ calls'[k].pc # "seed_cdr_sob") =>
                C19_Reported(calls[k].mmse_raw, calls'[k].mmse_trajectory,
                             RInt(30), RInt(1), <<7, 5>>)
          /\ (calls[k].pc = "return" /\ calls'[k].pc = "done") =>
                /\ C19_Reported(calls[k].cdr_sob_raw, Col(calls'[k].result, 3),
                                RInt(18), <<1, 2>>, <<9, 10>>)
                /\ Col(calls'[k].result, 1) = calls[k].mmse_trajectory]_vars

\* A call for the baseline near the top of the ranges returned three or more
\* timepoints: both trajectories were rescaled and still rise.
C19_Witness ==
    /\ calls[1].pc = "done"
    /\ baseline_mmse(calls[1].args) = RInt(29)
    /\ Len(calls[1].result) >= 3
    /\ RLt(calls[1].result[1][1], calls[1].result[2][1])
    /\ RLt(calls[1].result[2][1], calls[1].result[3][1])
    /\ RLt(calls[1].result[1][3], calls[1].result[2][3])
    /\ RLt(calls[1].result[2][3], calls[1].result[3][3])

\* C20: when the accumulated mmse ends above 30 the whole trajectory is
\* multiplied by 30 / final, so that its last value is exactly 30; when the
\* accumulated cdr_sob ends above 18 it is multiplied by 18 / final, so that
\* its last value is exactly 18; otherwise the trajectory is left unscaled.
\* Each score is rescaled on its own final value only.  Products are those
\* of real numbers.
C20_Scaled(walk, out, limit) ==
    LET n == Len(walk)
        final == C19_Acc(walk, n)
    IN  /\ Len(out) = n
        /\ IF RLt(limit, final)
           THEN /\ \A t \in 1..n :
                     IF RLt(C19_Acc(walk, t), Zero) THEN out[t] = Zero
                     ELSE RMul(out[t], final) = RMul(C19_Acc(walk, t), limit)
                /\ out[n] = limit
           ELSE \A t \in 1..n :
                     out[t] = IF RLt(C19_Acc(walk, t), Zero) THEN Zero
                              ELSE C19_Acc(walk, t)

C20_IndependentRescale ==
    [][\A k \in Threads :
          /\ (calls[k].pc = "seed_cdr_sob" /\ calls'[k].pc # "seed_cdr_sob") =>
                /\ C20_Scaled(calls[k].mmse_raw, calls'[k].mmse_trajectory, RInt(30))
                /\ calls'[k].adas_trajectory = calls[k].adas_trajectory
          /\ (calls[k].pc = "return" /\ calls'[k].pc = "done") =>
                /\ C20_Scaled(calls[k].cdr_sob_raw, Col(calls'[k].result, 3), RInt(18))
                /\ Col(calls'[k].result, 1) = calls[k].mmse_trajectory
                /\ Col(calls'[k].result, 4) = calls[k].adas_trajectory]_vars

\* The default call returned: its mmse was rescaled to end at 30 while its
\* cdr_sob and its adas_cog were not rescaled.
C20_Witness ==
    /\ calls[1].pc = "done"
    /\ calls[1].args = DefaultArgs
    /\ calls[1].result[16][1] = RInt(30)
    /\ RLt(calls[1].result[1][1], <<88, 5>>)
    /\ calls[1].result[1][3] = <<37, 5>>
    /\ RLt(calls[1].result[16][3], RInt(18))
    /\ calls[1].result[1][4] = <<289, 10>>

\* C21: generate starts each score from the caller's value when the field
\* is present, out of range or not, and from the fixed default (mmse 17.6,
\* cdr_sob 7.4, adas_cog 28.9) only when the field is absent, whatever the
\* other fields hold.
C21_Start(a, key, n, d) ==
    IF key \in DOMAIN a.last_session_scores THEN a.last_session_scores[key]
    ELSE <<n, d>>

C21_BaselineOrDefault ==
    \A k \in Threads :
        LET c == calls[k] IN
        c.pc \notin {"idle", "done", "raised"} =>
            /\ c.pc \in {"seed_adas", "draw_adas", "seed_mmse"} =>
                  c.adas_trajectory[1] = C21_Start(c.args, "adas_totscore", 289, 10)
            /\ c.mmse_raw # <<>> =>
                  c.mmse_raw[1] = C21_Start(c.args, "mmse", 88, 5)
            /\ c.cdr_sob_raw # <<>> =>
                  c.cdr_sob_raw[1] = C21_Start(c.args, "cdr_sob", 37, 5)

\* A call that was given only adas_totscore started its mmse and cdr_sob
\* walks from the defaults and its ADAS-Cog walk from the given value.
C21_Witness ==
    /\ calls[1].pc = "draw_cdr_sob"
    /\ DOMAIN calls[1].args.last_session_scores = {"adas_totscore"}
    /\ calls[1].mmse_raw[1] = <<88, 5>>
    /\ calls[1].cdr_sob_raw[1] = <<37, 5>>

\* C22: no call changes its input: enforce and validate leave the raw arrays
\* as they were, validate leaves the array it inspects as it was, and a call
\* of generate leaves its arguments as they were until it returns.
C22_InputsUnchanged ==
    [][/\ raw' = raw
       /\ alt' = alt
       /\ (constrained.status = "ok" /\ validation' # validation) =>
             constrained' = constrained
       /\ (constrained.status = "ok" /\ reconstrained' # reconstrained) =>
             constrained' = constrained
       /\ \A k \in Threads :
             /\ calls[k].pc \notin {"idle", "done", "raised"} =>
                   calls'[k].args = calls[k].args
             /\ (calls[k].pc = "done" /\ calls'[k].pc = "done") =>
                   calls'[k].result = calls[k].result]_vars

\* enforce was called on the raw array, generate returned and validate was
\* called on what it returned.
C22_Witness ==
    /\ constrained.status = "ok"
    /\ Validated(1)
    /\ Len(calls[1].result) >= 2

\* C23: after any sequence of POST /alzheimers/predictions requests every
\* score held in predictions_store, of the last visit and of every future
\* prediction, is clinically constrained: MMSE in [0,30], CDR_Global one of
\* 0, 0.5, 1, 2, 3, CDR_SOB in [0,18], ADAS_Cog in [0,70].
C23_Constrained(sc) == FirstInvalid(sc) = "none"

C23_StoreHoldsConstrainedScores ==
    \A p \in DOMAIN predictions_store :
        /\ C23_Constrained(predictions_store[p].last_visit.scores)
        /\ \A i \in 1..Len(predictions_store[p].future_predictions) :
              C23_Constrained(predictions_store[p].future_predictions[i].scores)

\* C24: a POST answered with 400 leaves predictions_store as it was; a POST
\* answered with 200 replaces the entry of its patient_id and no other; GET
\* answers with the last accepted request of the patient, and with 404 when
\* none was accepted.
C24_RejectedPostKeepsStore ==
    /\ [][posts' # posts =>
            /\ http'.response.status \in {200, 400}
            /\ http'.response.status = 400 => predictions_store' = predictions_store
            /\ http'.response.status = 200 =>
                  /\ DOMAIN predictions_store' =
                        DOMAIN predictions_store \cup {http'.request.patient_id}
                  /\ \A p \in DOMAIN predictions_store' :
                        predictions_store'[p] =
                            IF p = http'.request.patient_id THEN http'.request
                            ELSE predictions_store[p]]_vars
    /\ [](http.op = "GET" =>
            IF http.patient_id \in DOMAIN accepted
            THEN /\ http.response.status = 200
                 /\ http.response.body = accepted[http.patient_id]
            ELSE http.response.status = 404)

\* A request of a patient with a stored entry was rejected with 400: the
\* entry accepted earlier is still the one stored.
C24_Witness ==
    /\ http.op = "POST"
    /\ http.response.status = 400
    /\ http.request.patient_id \in DOMAIN predictions_store
    /\ predictions_store[http.request.patient_id] = accepted[http.request.patient_id]
    /\ predictions_store[http.request.patient_id].prediction_time
           # http.request.prediction_time

\* C25: process_unprocessed_files returns after it invoked process_file
\* once for every row whose processed flag was False, so that a file whose
\* processing failed at upload is retried; it returns the number of files
\* processed successfully.
C25_EveryUnprocessedFileInvoked ==
    fileCall.op = "process_unprocessed_files" =>
        /\ fileCall.status = "ok"
        /\ Len(fileCall.invoked) = Cardinality(fileCall.unprocessed)
        /\ {fileCall.invoked[i] : i \in 1..Len(fileCall.invoked)} = fileCall.unprocessed

\* C26: the steps of the pipeline run in order and stop at the first
\* failure: nothing runs after a session whose preprocessing failed; the
\* prediction runs only after every unprocessed session was preprocessed with
\* return code 0; formatting and sending run only after a prediction that
\* succeeded and whose result file was loaded.
C26_Steps(name) == {i \in 1..Len(pipeline.ran) : pipeline.ran[i].step = name}

C26_StepsInOrderUntilFailure ==
    pipeline.pc # "idle" =>
        LET ran == pipeline.ran
            n == Len(pipeline.unprocessed)
        IN  /\ \A i \in C26_Steps("preprocess") :
                  /\ i <= n
                  /\ ran[i].session = pipeline.unprocessed[i]
                  /\ ran[i].returncode # 0 =>
                        /\ Len(ran) = i
                        /\ pipeline.pc = "exited"
                        /\ pipeline.exit = 1
            /\ \A i \in C26_Steps("predict") :
                  /\ i = n + 1
                  /\ \A j \in 1..n : ran[j].step = "preprocess" /\ ran[j].returncode = 0
            /\ \A i \in C26_Steps("format") :
                  /\ i = n + 2
                  /\ ran[i-1].step = "predict"
                  /\ ran[i-1].returncode = 0
                  /\ Truthy(pipeline.results)
            /\ \A i \in C26_Steps("send") :
                  /\ i = n + 3
                  /\ ran[i-1].step = "format"

\* The second of three sessions failed: the third was not preprocessed and
\* no prediction ran.
C26_Witness ==
    /\ pipeline.pc = "exited"
    /\ Len(pipeline.unprocessed) = 3
    /\ Len(pipeline.ran) = 2
    /\ pipeline.ran[2].returncode = 1
    /\ pipeline.exit = 1

\* C27: the pipeline prints '[OK] Results sent to backend' and 'PIPELINE
\* COMPLETE' only if the backend answered the POST with status 200; after
\* any other outcome of the POST it exits with status 1.
C27_Printed(line) == \E i \in 1..Len(pipeline.stdout) : pipeline.stdout[i] = line

C27_CompleteOnlyAfter200 ==
    (pipeline.pc = "exited" /\ C26_Steps("send") # {}) =>
        LET reply == Last(pipeline.ran).reply
        IN  IF reply \in {"200", "200 without message"}
            THEN pipeline.exit = 0
            ELSE /\ pipeline.exit = 1
                 /\ ~C27_Printed("[OK] Results sent to backend")
                 /\ ~C27_Printed("PIPELINE COMPLETE")

\* C28: processed turns True only in a step of process_file that returns
\* True; a run of process_file that raises leaves processed as it was (False
\* for a file not yet processed), records processing_error and returns False;
\* a run that extracts no text returns False and changes no row.
C28_Raising == {"extract_raises", "fhir_raises", "commit_raises"}

C29_First(walk, out, limit, target) ==
    LET n == Len(walk)
        final == C19_Acc(walk, n)
    IN  RLt(Zero, walk[1]) =>
          /\ RLt(limit, final) =>
                /\ RMul(out[1], final) = RMul(walk[1], target)
                /\ RLt(out[1], walk[1])
          /\ out[1] = walk[1] => ~RLt(limit, final)

C29_RescaledFirstTimepoint ==
    [][\A k \in Threads :
          /\ (calls[k].pc = "seed_mmse" /\ calls'[k].pc # "seed_mmse") =>
                C29_First(calls[k].adas_trajectory, calls'[k].adas_trajectory,
                          RInt(70), <<613, 10>>)
          /\ (calls[k].pc = "seed_cdr_sob" /\ calls'[k].pc # "seed_cdr_sob") =>
                /\ C29_First(calls[k].mmse_raw, calls'[k].mmse_trajectory,
                             RInt(30), RInt(30))
                /\ calls[k].args = DefaultArgs =>
                      /\ calls'[k].mmse_trajectory[16] = RInt(30)
                      /\ RLt(calls'[k].mmse_trajectory[1], <<88, 5>>)
          /\ (calls[k].pc = "return" /\ calls'[k].pc = "done") =>
                /\ C29_First(calls[k].cdr_sob_raw, Col(calls'[k].result, 3),
                             RInt(18), RInt(18))
                /\ calls'[k].result[1][1] = calls[k].mmse_trajectory[1]
                /\ calls'[k].result[1][4] = calls[k].adas_trajectory[1]]_vars

\* The default call returned after the largest raw MMSE drop (-1.4) at every
\* draw: its mmse ends at 30 and starts at 17.6 * 30 / 38.6.
C29_Witness ==
    /\ calls[1].pc = "done"
    /\ calls[1].args = DefaultArgs
    /\ calls[1].result[16][1] = RInt(30)
    /\ RLt(calls[1].result[1][1], <<88, 5>>)
    /\ calls[1].result[1][1] = <<2640, 193>>

\* C30: cdr_global never decreases over t in an output of generate or of
\* enforce; cdr_sob never decreases over t in an output of enforce; once the
\* adas_cog of an enforce output is 70, every later timepoint has adas_cog
\* 70, mmse 0, cdr_sob 18 and cdr_global 3.
C30_StageNeverDrops ==
    /\ \A o \in EnforceOutputs \cup GenerateOutputs :
          \A t \in 2..Len(o) : RLe(o[t-1][2], o[t][2])
    /\ \A o \in EnforceOutputs :
          /\ \A t \in 2..Len(o) : RLe(o[t-1][3], o[t][3])
          /\ \A t \in 1..Len(o) : \A u \in t..Len(o) :
                o[t][4] = <<70, 1>> =>
                    o[u] = <<<<0, 1>>, <<3, 1>>, <<18, 1>>, <<70, 1>>>>

\* enforce returned an array whose stage rises and whose adas_cog is 70
\* before the last timepoint.
C30_Witness ==
    /\ constrained.status = "ok"
    /\ ~HasMissing(raw)
    /\ Len(constrained.value) >= 3
    /\ RLt(constrained.value[1][2], constrained.value[2][2])
    /\ constrained.value[2][4] = <<70, 1>>

TypeOK ==
    /\ constrained.status \in {"none", "ok", "raised"}
    /\ validation.status \in {"none", "ok", "raised"}

====
